---- MODULE Spec2Model ----
(***************************************************************************)
(* The payment server: a REST dispatcher (server.go) over the payment      *)
(* lifecycle functions (model.go), which validate against a MongoDB        *)
(* collection and then mutate it.                                          *)
(*                                                                         *)
(* Every request runs on its own goroutine and holds no lock, so a handler *)
(* is atomic only between two store calls: each handler that issues two    *)
(* store calls (count, then insert/one/update/remove) is two actions, and  *)
(* requests in flight between their two calls are the bag `pending`.       *)
(***************************************************************************)
EXTENDS Integers, Sequences, FiniteSets, Bags, TLC

VARIABLES
    store,      \* the collection: a sequence of BSON documents, natural order
    pending,    \* bag of requests that passed their first store call
    resp,       \* the response written last (status, JSON payload)
    life        \* history: per identifier "never" | "live" | "deleted"

vars == <<store, pending, resp, life>>

-----------------------------------------------------------------------------
(* Bounds and sample inputs *)

\* Requests that may be in flight between their two store calls at once.
MaxInFlight == 2

\* Non-empty identifiers; the mux pattern {id} matches one or more characters.
Ids == {"a", "b"}

\* Why a store call failed; "" is Go's nil error.
StoreDown == "no reachable servers"
DuplicateKey == "E11000 duplicate key error"
ErrNotFound == "not found"

-----------------------------------------------------------------------------
(* model.go: the Payment record *)

\* A Go slice: nil and empty-but-non-nil are different values, and
\* encoding/json writes the first as null and the second as [].
NilSlice == [nil |-> TRUE, elems |-> <<>>]

MkSlice(s) == [nil |-> FALSE, elems |-> s]

\* Payment, reduced to its identifier, one scalar attribute and the one
\* array-valued attribute (Attributes.ChargesInformation.SenderCharges).
Payment(id, amount, charges) ==
    [ID |-> id, Amount |-> amount, SenderCharges |-> charges]

\* var payment Payment: Go's zero value.
ZeroPayment == Payment("", "", NilSlice)

\* The charge lists the sample payloads carry.
Charges == <<[Amount |-> "5.00", Currency |-> "GBP"]>>

\* Attribute values of the sample request bodies: a full body like the test
\* payload (amount 100.21, with sender charges) and a partial body with
\* another amount and no sender_charges key.
SampleAttrs ==
    { [Amount |-> "100.21", SenderCharges |-> MkSlice(Charges)],
      [Amount |-> "121.00", SenderCharges |-> NilSlice] }

\* A request body: malformed JSON, or an object whose "id" key may be missing.
MalformedBody ==
    [ok |-> FALSE, hasID |-> FALSE, ID |-> "", Amount |-> "",
     SenderCharges |-> NilSlice]

\* An object with an "id" key (possibly "") or, with has = FALSE, without one.
Body(has, id, a) ==
    [ok |-> TRUE, hasID |-> has, ID |-> id, Amount |-> a.Amount,
     SenderCharges |-> a.SenderCharges]

Bodies ==
    {MalformedBody}
    \cup { Body(TRUE, i, a) : i \in Ids \cup {""}, a \in SampleAttrs }
    \cup { Body(FALSE, "", a) : a \in SampleAttrs }

\* The bodies requests are sent with: those of Bodies, the ones the handlers
\* cannot tell apart sent once. A body with "id":"" or with no "id" key is
\* sent with one choice of attributes: with "id":"" it is rejected before
\* its attributes are looked at, and with no "id" key it decodes to what the
\* body carrying the identifier decoded into does.
RequestBodies ==
    {MalformedBody}
    \cup { Body(TRUE, i, a) : i \in Ids, a \in SampleAttrs }
    \cup { Body(has, "", [Amount |-> "121.00", SenderCharges |-> NilSlice]) :
              has \in BOOLEAN }

\* json.Decoder.Decode(&p): keys present in the body overwrite the fields of
\* p; a missing "id" key leaves p.ID as it was. The other fields of p are
\* zero before the call in both handlers that decode.
jsonDecode(p, body) ==
    [ID |-> IF body.hasID THEN body.ID ELSE p.ID,
     Amount |-> body.Amount,
     SenderCharges |-> body.SenderCharges]

\* bson.Marshal of a Payment: the document stored. mgo writes a slice as a
\* BSON array of its elements, a nil slice as an empty array.
bsonMarshal(p) ==
    [id |-> p.ID, amount |-> p.Amount, sender_charges |-> p.SenderCharges.elems]

\* bson.Unmarshal into a Payment: an array is read into a freshly made slice.
bsonUnmarshal(d) ==
    Payment(d.id, d.amount, MkSlice(d.sender_charges))

-----------------------------------------------------------------------------
(* The collection, as the mgo calls of model.go see it *)

\* Variant: ID stored under an ordinary key, which carries no unique index.
IDIsOrdinaryField == FALSE

\* ID is tagged bson:"_id": MongoDB keeps a unique index on _id.
IDIsPrimaryKey == TRUE

\* db.C(COLLECTION).Find(bson.M{"_id": id}): the matching documents.
Find(s, id) == SelectSeq(s, LAMBDA d : d.id = id)

\* Position of the first document with this _id (0 when there is none).
IndexOf(s, id) ==
    IF \E i \in 1..Len(s) : s[i].id = id
    THEN CHOOSE i \in 1..Len(s) :
            s[i].id = id /\ \A j \in 1..(i - 1) : s[j].id # id
    ELSE 0

\* s without its i-th element.
RemoveAt(s, i) == SubSeq(s, 1, i - 1) \o SubSeq(s, i + 1, Len(s))

\* checkEmptyPaymentID
checkEmptyPaymentID(p) == p.ID = ""

\* returnPaymentCount: (count, err); -1 with the error when the query fails.
returnPaymentCount(s, p, up) ==
    IF ~up THEN [count |-> -1, err |-> StoreDown]
    ELSE [count |-> Len(Find(s, p.ID)), err |-> ""]

\* returnPaymentCountAndQuery: the same count, with the query kept for One.
returnPaymentCountAndQuery(s, p, up) == returnPaymentCount(s, p, up)

\* Variant: var payments []Payment, a nil slice.
NilPayments == NilSlice

\* The slice modelGetPayments starts from: payments := []Payment{}.
EmptyPayments == MkSlice(<<>>)

\* Variant: One instead of All, only the first document is returned.
modelGetPaymentsFirstOnly(s, up) ==
    IF ~up THEN [payments |-> EmptyPayments, err |-> StoreDown]
    ELSE [payments |->
              IF Len(s) = 0 THEN EmptyPayments
              ELSE MkSlice(<<bsonUnmarshal(s[1])>>),
          err |-> ""]

\* Variant: the query given Sort("-$natural"), the documents come reversed.
modelGetPaymentsReversed(s, up) ==
    IF ~up THEN [payments |-> EmptyPayments, err |-> StoreDown]
    ELSE [payments |->
              IF Len(s) = 0 THEN EmptyPayments
              ELSE MkSlice([i \in 1..Len(s) |->
                               bsonUnmarshal(s[Len(s) + 1 - i])]),
          err |-> ""]

\* modelGetPayments: Find(bson.M{}).All(&payments), every document in natural
\* order appended to the slice; on error the slice stays as it started.
modelGetPayments(s, up) ==
    IF ~up THEN [payments |-> EmptyPayments, err |-> StoreDown]
    ELSE [payments |->
              IF Len(s) = 0 THEN EmptyPayments
              ELSE MkSlice([i \in 1..Len(s) |-> bsonUnmarshal(s[i])]),
          err |-> ""]

\* Variant: a count of zero reported with -1, like the other failures.
modelGetPaymentCountNotFoundAsError(s, p, up) ==
    IF checkEmptyPaymentID(p)
    THEN [count |-> -1, err |-> "No Payment ID specified", one |-> FALSE]
    ELSE LET q == returnPaymentCountAndQuery(s, p, up) IN
         IF q.err # "" THEN [count |-> -1, err |-> q.err, one |-> FALSE]
         ELSE IF q.count = 0
         THEN [count |-> -1, err |-> "Payment not found", one |-> FALSE]
         ELSE IF q.count > 1
         THEN [count |-> -1, err |-> "More than one payment returned per ID",
               one |-> FALSE]
         ELSE [count |-> q.count, err |-> "", one |-> TRUE]

\* Variant: the count > 1 test left out.
modelGetPaymentCountNoConflictTest(s, p, up) ==
    IF checkEmptyPaymentID(p)
    THEN [count |-> -1, err |-> "No Payment ID specified", one |-> FALSE]
    ELSE LET q == returnPaymentCountAndQuery(s, p, up) IN
         IF q.err # "" THEN [count |-> -1, err |-> q.err, one |-> FALSE]
         ELSE IF q.count = 0
         THEN [count |-> 0, err |-> "Payment not found", one |-> FALSE]
         ELSE [count |-> q.count, err |-> "", one |-> TRUE]

\* modelGetPayment up to and including its count query. `one` says whether
\* the function goes on to query.One.
modelGetPaymentCount(s, p, up) ==
    IF checkEmptyPaymentID(p)
    THEN [count |-> -1, err |-> "No Payment ID specified", one |-> FALSE]
    ELSE LET q == returnPaymentCountAndQuery(s, p, up) IN
         IF q.err # "" THEN [count |-> -1, err |-> q.err, one |-> FALSE]
         ELSE IF q.count = 0
         THEN [count |-> 0, err |-> "Payment not found", one |-> FALSE]
         ELSE IF q.count > 1
         THEN [count |-> -1, err |-> "More than one payment returned per ID",
               one |-> FALSE]
         ELSE [count |-> q.count, err |-> "", one |-> TRUE]

\* query.One(&payment): the first match is decoded into payment; the error
\* One returns (no match, store failure) is dropped, and payment then keeps
\* its zero value. modelGetPayment returns (count, payment, nil).
modelGetPaymentOne(s, p, up) ==
    [count |-> 1,
     payment |-> IF up /\ Len(Find(s, p.ID)) > 0
                 THEN bsonUnmarshal(Find(s, p.ID)[1])
                 ELSE ZeroPayment,
     err |-> ""]

\* Variant: the uniqueness test written count > 1.
modelCreatePaymentValidCheckOffByOne(s, p, up) ==
    IF checkEmptyPaymentID(p)
    THEN "Cannot add a payment without a Payment ID specified"
    ELSE LET c == returnPaymentCount(s, p, up) IN
         IF c.err # "" THEN c.err
         ELSE IF c.count > 1
         THEN "A payment with this Payment ID already exists"
         ELSE ""

\* Variant: the empty identifier test left out.
modelCreatePaymentValidCheckNoEmptyCheck(s, p, up) ==
    LET c == returnPaymentCount(s, p, up) IN
    IF c.err # "" THEN c.err
    ELSE IF c.count > 0
    THEN "A payment with this Payment ID already exists"
    ELSE ""

\* modelCreatePaymentValidCheck: "" when the payment may be created.
modelCreatePaymentValidCheck(s, p, up) ==
    IF checkEmptyPaymentID(p)
    THEN "Cannot add a payment without a Payment ID specified"
    ELSE LET c == returnPaymentCount(s, p, up) IN
         IF c.err # "" THEN c.err
         ELSE IF c.count > 0
         THEN "A payment with this Payment ID already exists"
         ELSE ""

\* The collection is read with Find(bson.M{}) and no Sort, that is in the
\* store's natural order. Where a new document falls in that order is the
\* store's choice: NaturalPositions(s) are the places an insert may take.
NaturalPositions(s) == 1..(Len(s) + 1)

InsertAt(s, at, d) == SubSeq(s, 1, at - 1) \o <<d>> \o SubSeq(s, at, Len(s))

\* Variant: the document written with Upsert, which replaces the document
\* that holds the _id.
modelCreatePaymentUpserts(s, p, up, at) ==
    IF ~up THEN [store |-> s, err |-> StoreDown]
    ELSE IF IndexOf(s, p.ID) > 0
    THEN [store |-> [s EXCEPT ![IndexOf(s, p.ID)] = bsonMarshal(p)],
          err |-> ""]
    ELSE [store |-> InsertAt(s, at, bsonMarshal(p)), err |-> ""]

\* Variant: the insert into a collection keyed by a generated _id, the
\* payment identifier stored as a field without a unique index.
modelCreatePaymentNoIndex(s, p, up, at) ==
    IF ~up THEN [store |-> s, err |-> StoreDown]
    ELSE [store |-> InsertAt(s, at, bsonMarshal(p)), err |-> ""]

\* modelCreatePayment: Insert(&p). The insert is rejected when the store is
\* unavailable or the _id is taken; otherwise the document is stored, at the
\* place `at` of the natural order.
modelCreatePayment(s, p, up, at) ==
    IF ~up THEN [store |-> s, err |-> StoreDown]
    ELSE IF IDIsPrimaryKey /\ Len(Find(s, p.ID)) > 0
    THEN [store |-> s, err |-> DuplicateKey]
    ELSE [store |-> InsertAt(s, at, bsonMarshal(p)), err |-> ""]

\* modelUpdatePaymentValidCheck: "" when the payment may be updated.
modelUpdatePaymentValidCheck(s, p, up) ==
    IF checkEmptyPaymentID(p)
    THEN "Cannot update a payment without a Payment ID specified"
    ELSE LET c == returnPaymentCount(s, p, up) IN
         IF c.err # "" THEN c.err
         ELSE IF c.count = 0
         THEN "A payment with this Payment ID does not exist"
         ELSE ""

\* Variant: the document written with UpsertId, which inserts it when no
\* document holds the _id.
modelUpdatePaymentUpserts(s, p, up) ==
    IF ~up THEN [store |-> s, err |-> StoreDown]
    ELSE IF IndexOf(s, p.ID) = 0
    THEN [store |-> Append(s, bsonMarshal(p)), err |-> ""]
    ELSE [store |-> [s EXCEPT ![IndexOf(s, p.ID)] = bsonMarshal(p)],
          err |-> ""]

\* modelUpdatePayment: UpdateId(p.ID, &p) replaces the first document whose
\* _id is p.ID by the marshalled p, in place; ErrNotFound when none matches.
modelUpdatePayment(s, p, up) ==
    IF ~up THEN [store |-> s, err |-> StoreDown]
    ELSE IF IndexOf(s, p.ID) = 0 THEN [store |-> s, err |-> ErrNotFound]
    ELSE [store |-> [s EXCEPT ![IndexOf(s, p.ID)] = bsonMarshal(p)],
          err |-> ""]

\* Variant: the count queried before the empty identifier test.
modelDeletePaymentValidCheckCountFirst(s, p, up) ==
    LET c == returnPaymentCount(s, p, up) IN
    IF c.err # "" THEN c.err
    ELSE IF checkEmptyPaymentID(p)
    THEN "Cannot delete a payment without a Payment ID specified"
    ELSE IF c.count = 0
    THEN "A payment with this Payment ID doesn't exists"
    ELSE ""

\* Variant: the existence test left out.
modelDeletePaymentValidCheckNoCount(s, p, up) ==
    IF checkEmptyPaymentID(p)
    THEN "Cannot delete a payment without a Payment ID specified"
    ELSE LET c == returnPaymentCount(s, p, up) IN
         IF c.err # "" THEN c.err ELSE ""

\* modelDeletePaymentValidCheck: "" when the payment may be deleted.
modelDeletePaymentValidCheck(s, p, up) ==
    IF checkEmptyPaymentID(p)
    THEN "Cannot delete a payment without a Payment ID specified"
    ELSE LET c == returnPaymentCount(s, p, up) IN
         IF c.err # "" THEN c.err
         ELSE IF c.count = 0
         THEN "A payment with this Payment ID doesn't exists"
         ELSE ""

\* Variant: a selector that matches nothing, run with RemoveAll: no document
\* is removed and no error is returned.
modelDeletePaymentKeepsRecord(s, p, up) ==
    IF ~up THEN [store |-> s, err |-> StoreDown]
    ELSE [store |-> s, err |-> ""]

\* Variant: RemoveAll with the empty selector bson.M{}, as the tests'
\* clearTable does: every document is removed.
modelDeletePaymentNoSelector(s, p, up) ==
    IF ~up THEN [store |-> s, err |-> StoreDown]
    ELSE [store |-> <<>>, err |-> ""]

\* Variant: RemoveAll(bson.M{"_id": p.ID}), which reports no error when no
\* document matches.
modelDeletePaymentRemoveAll(s, p, up) ==
    IF ~up THEN [store |-> s, err |-> StoreDown]
    ELSE IF IndexOf(s, p.ID) = 0 THEN [store |-> s, err |-> ""]
    ELSE [store |-> RemoveAt(s, IndexOf(s, p.ID)), err |-> ""]

\* modelDeletePayment: Remove(bson.M{"_id": p.ID}) removes the first matching
\* document; ErrNotFound when none matches.
modelDeletePayment(s, p, up) ==
    IF ~up THEN [store |-> s, err |-> StoreDown]
    ELSE IF IndexOf(s, p.ID) = 0 THEN [store |-> s, err |-> ErrNotFound]
    ELSE [store |-> RemoveAt(s, IndexOf(s, p.ID)), err |-> ""]

-----------------------------------------------------------------------------
(* server.go: responses *)

StatusOK == 200
StatusCreated == 201
StatusBadRequest == 400
StatusNotFound == 404
StatusInternalServerError == 500

SelfLink == "https://api.test.form3.tech/v1/payments"

\* respondWithJSON: the status and the payload as json.Marshal writes it.
\* `op` and `id` name the route and its {id} variable ("" when it has none).
respondWithJSON(op, id, code, payload) ==
    [op |-> op, id |-> id, status |-> code, body |-> payload]

\* respondWithError
respondWithError(op, id, code, message) ==
    respondWithJSON(op, id, code, [error |-> message])

\* No response written yet.
NoResponse == respondWithJSON("none", "", 0, [result |-> "none"])

\* getPayment's mapping of what modelGetPayment returned to a response.
getPaymentRespond(id, count, payment, err) ==
    IF err # "" /\ count < 0
    THEN respondWithError("get", id, StatusInternalServerError, err)
    ELSE IF err # "" /\ count = 0
    THEN respondWithError("get", id, StatusNotFound, err)
    ELSE respondWithJSON("get", id, StatusOK, payment)

\* A request in flight: its route, its {id} variable and its Payment p.
Request(op, id, p) == [op |-> op, id |-> id, p |-> p]

InFlight == BagToSet(pending)

-----------------------------------------------------------------------------
(* server.go: the handlers.                                                *)
(*                                                                         *)
(* Each handler is written as what it does to a collection s: the response *)
(* it writes (`resp`), the collection it leaves (`store`) and, when it is  *)
(* about to issue its second store call, the request it goes on with       *)
(* (`park`, a set of at most one request; `resp` is then not yet written). *)
(* `up` is whether the store answers the call made in that step.           *)
(***************************************************************************)

Answered(s, r) == [resp |-> r, store |-> s, park |-> {}]

GoesOn(s, req) == [resp |-> NoResponse, store |-> s, park |-> {req}]

\* getPayments: GET /payments.
getPaymentsResult(s, up) ==
    LET r == modelGetPayments(s, up) IN
    IF r.err # ""
    THEN Answered(s, respondWithError("list", "",
                                      StatusInternalServerError, r.err))
    ELSE Answered(s, respondWithJSON("list", "", StatusOK,
                        [data |-> r.payments, links |-> [self |-> SelfLink]]))

\* createPayment, through modelCreatePaymentValidCheck: POST /payment.
createPaymentCheckResult(s, body, up) ==
    LET p == jsonDecode(ZeroPayment, body)
        err == modelCreatePaymentValidCheck(s, p, up)
    IN  IF ~body.ok
        THEN Answered(s, respondWithError("create", "", StatusBadRequest,
                                          "Invalid payload request"))
        ELSE IF err # ""
        THEN Answered(s, respondWithError("create", "", StatusBadRequest, err))
        ELSE GoesOn(s, Request("create", "", p))

\* createPayment, from modelCreatePayment to the response.
createPaymentInsertResult(s, r, up, at) ==
    LET res == modelCreatePayment(s, r.p, up, at) IN
    IF res.err # ""
    THEN Answered(res.store, respondWithError("create", "",
                                 StatusInternalServerError, res.err))
    ELSE Answered(res.store,
                  respondWithJSON("create", "", StatusCreated, r.p))

\* getPayment, through the count query of modelGetPayment: GET /payment/{id}.
getPaymentCountResult(s, id, up) ==
    LET p == Payment(id, "", NilSlice)
        c == modelGetPaymentCount(s, p, up)
    IN  IF c.one THEN GoesOn(s, Request("get", id, p))
        ELSE Answered(s, getPaymentRespond(id, c.count, ZeroPayment, c.err))

\* Variant: the document fetched with query.Apply and Change{Remove: true},
\* which removes the document it returns.
getPaymentOneResultFindAndRemove(s, r, up) ==
    LET g == modelGetPaymentOne(s, r.p, up) IN
    Answered(IF up /\ IndexOf(s, r.p.ID) > 0
             THEN RemoveAt(s, IndexOf(s, r.p.ID)) ELSE s,
             getPaymentRespond(r.id, g.count, g.payment, g.err))

\* getPayment, from query.One to the response.
getPaymentOneResult(s, r, up) ==
    LET g == modelGetPaymentOne(s, r.p, up) IN
    Answered(s, getPaymentRespond(r.id, g.count, g.payment, g.err))

\* Variant: the error of Decode not tested.
updatePaymentCheckResultDecodeErrorIgnored(s, id, body, up) ==
    LET p == jsonDecode(Payment(id, "", NilSlice), body)
        err == modelUpdatePaymentValidCheck(s, p, up)
    IN  IF err # ""
        THEN Answered(s, respondWithError("update", id, StatusNotFound, err))
        ELSE GoesOn(s, Request("update", id, p))

\* updatePayment, through modelUpdatePaymentValidCheck: PUT /payment/{id}.
updatePaymentCheckResult(s, id, body, up) ==
    LET p == jsonDecode(Payment(id, "", NilSlice), body)
        err == modelUpdatePaymentValidCheck(s, p, up)
    IN  IF ~body.ok
        THEN Answered(s, respondWithError("update", id, StatusBadRequest,
                                          "Invalid request payload"))
        ELSE IF err # ""
        THEN Answered(s, respondWithError("update", id, StatusNotFound, err))
        ELSE GoesOn(s, Request("update", id, p))

\* updatePayment, from modelUpdatePayment to the response.
updatePaymentUpdateResult(s, r, up) ==
    LET res == modelUpdatePayment(s, r.p, up) IN
    IF res.err # ""
    THEN Answered(res.store, respondWithError("update", r.id,
                                 StatusInternalServerError, res.err))
    ELSE Answered(res.store, respondWithJSON("update", r.id, StatusOK, r.p))

\* deletePayment, through modelDeletePaymentValidCheck: DELETE /payment/{id}.
deletePaymentCheckResult(s, id, up) ==
    LET p == Payment(id, "", NilSlice)
        err == modelDeletePaymentValidCheck(s, p, up)
    IN  IF err # ""
        THEN Answered(s, respondWithError("delete", id, StatusNotFound, err))
        ELSE GoesOn(s, Request("delete", id, p))

\* deletePayment, from modelDeletePayment to the response.
deletePaymentRemoveResult(s, r, up) ==
    LET res == modelDeletePayment(s, r.p, up) IN
    IF res.err # ""
    THEN Answered(res.store, respondWithError("delete", r.id,
                                 StatusInternalServerError, res.err))
    ELSE Answered(res.store, respondWithJSON("delete", r.id, StatusOK,
                                             [result |-> "success"]))

\* GET /payment/{id} served with no other request between its two store
\* calls, the store answering both.
getPayment(s, id) ==
    LET c == getPaymentCountResult(s, id, TRUE) IN
    IF c.park = {} THEN c.resp
    ELSE (getPaymentOneResult(s, CHOOSE r \in c.park : TRUE, TRUE)).resp

-----------------------------------------------------------------------------
(* The server: requests arrive at any time and interleave at store calls *)

Init ==
    /\ store = <<>>
    /\ pending = EmptyBag
    /\ resp = NoResponse
    /\ life = [i \in Ids |-> "never"]

\* A request runs from its arrival up to its response or to the point just
\* before its second store call.
Begin(o) ==
    /\ o.park # {} => BagCardinality(pending) < MaxInFlight
    /\ pending' = pending (+) SetToBag(o.park)
    /\ resp' = IF o.park = {} THEN o.resp ELSE resp
    /\ store' = o.store

\* Request r in flight issues its second store call and responds.
Finish(r, o) ==
    /\ pending' = pending (-) SetToBag({r})
    /\ resp' = o.resp
    /\ store' = o.store

getPayments(up) ==
    /\ Begin(getPaymentsResult(store, up))
    /\ UNCHANGED life

createPaymentCheck(body, up) ==
    /\ Begin(createPaymentCheckResult(store, body, up))
    /\ UNCHANGED life

createPaymentInsert(r, up) ==
    /\ r \in InFlight /\ r.op = "create"
    /\ \E at \in NaturalPositions(store) :
          LET o == createPaymentInsertResult(store, r, up, at) IN
          /\ Finish(r, o)
          /\ life' = IF o.resp.status = StatusCreated
                     THEN [life EXCEPT ![r.p.ID] = "live"] ELSE life

getPaymentCount(id, up) ==
    /\ Begin(getPaymentCountResult(store, id, up))
    /\ UNCHANGED life

getPaymentOne(r, up) ==
    /\ r \in InFlight /\ r.op = "get"
    /\ Finish(r, getPaymentOneResult(store, r, up))
    /\ UNCHANGED life

updatePaymentCheck(id, body, up) ==
    /\ Begin(updatePaymentCheckResult(store, id, body, up))
    /\ UNCHANGED life

updatePaymentUpdate(r, up) ==
    /\ r \in InFlight /\ r.op = "update"
    /\ Finish(r, updatePaymentUpdateResult(store, r, up))
    /\ UNCHANGED life

deletePaymentCheck(id, up) ==
    /\ Begin(deletePaymentCheckResult(store, id, up))
    /\ UNCHANGED life

deletePaymentRemove(r, up) ==
    LET o == deletePaymentRemoveResult(store, r, up) IN
    /\ r \in InFlight /\ r.op = "delete"
    /\ Finish(r, o)
    /\ life' = IF o.resp.status = StatusOK
               THEN [life EXCEPT ![r.p.ID] = "deleted"] ELSE life

Next ==
    \/ \E up \in BOOLEAN : getPayments(up)
    \/ \E body \in RequestBodies, up \in BOOLEAN :
          createPaymentCheck(body, up)
    \/ \E r \in InFlight, up \in BOOLEAN : createPaymentInsert(r, up)
    \/ \E id \in Ids, up \in BOOLEAN : getPaymentCount(id, up)
    \/ \E r \in InFlight, up \in BOOLEAN : getPaymentOne(r, up)
    \/ \E id \in Ids, body \in RequestBodies, up \in BOOLEAN :
          updatePaymentCheck(id, body, up)
    \/ \E r \in InFlight, up \in BOOLEAN : updatePaymentUpdate(r, up)
    \/ \E id \in Ids, up \in BOOLEAN : deletePaymentCheck(id, up)
    \/ \E r \in InFlight, up \in BOOLEAN : deletePaymentRemove(r, up)

Spec == Init /\ [][Next]_vars

\* The handlers called with any {id} variable, the empty one included. The
\* router never hands an empty path segment to a handler (the {id} pattern
\* matches one character or more); a handler called as a function can get
\* one, and modelGetPayment, modelUpdatePaymentValidCheck and
\* modelDeletePaymentValidCheck each test for it.
HandlerIds == Ids \cup {""}

NextDirect ==
    \/ \E up \in BOOLEAN : getPayments(up)
    \/ \E body \in RequestBodies, up \in BOOLEAN :
          createPaymentCheck(body, up)
    \/ \E r \in InFlight, up \in BOOLEAN : createPaymentInsert(r, up)
    \/ \E id \in HandlerIds, up \in BOOLEAN : getPaymentCount(id, up)
    \/ \E r \in InFlight, up \in BOOLEAN : getPaymentOne(r, up)
    \/ \E id \in HandlerIds, body \in RequestBodies, up \in BOOLEAN :
          updatePaymentCheck(id, body, up)
    \/ \E r \in InFlight, up \in BOOLEAN : updatePaymentUpdate(r, up)
    \/ \E id \in HandlerIds, up \in BOOLEAN : deletePaymentCheck(id, up)
    \/ \E r \in InFlight, up \in BOOLEAN : deletePaymentRemove(r, up)

SpecDirect == Init /\ [][NextDirect]_vars

\* The requests whose payment identifier is empty, served from the
\* collections that creates build: a get and a delete called with the empty
\* {id}, a create whose body has no identifier, and an update whose payment,
\* decoded over the {id}, has none.
EmptyIDBodies(id) ==
    { body \in RequestBodies :
         body.ok /\ (jsonDecode(Payment(id, "", NilSlice), body)).ID = "" }

NextEmptyID ==
    \/ \E body \in RequestBodies, up \in BOOLEAN :
          createPaymentCheck(body, up)
    \/ \E r \in InFlight, up \in BOOLEAN : createPaymentInsert(r, up)
    \/ \E up \in BOOLEAN : getPaymentCount("", up)
    \/ \E id \in HandlerIds, up \in BOOLEAN :
          \E body \in EmptyIDBodies(id) : updatePaymentCheck(id, body, up)
    \/ \E up \in BOOLEAN : deletePaymentCheck("", up)

SpecEmptyID == Init /\ [][NextEmptyID]_vars

\* modelGetPayment tests the count of matches for more than one. In the
\* collection the server fills, the _id index keeps the count at most one;
\* the test is for a store that reports several matches. Such stores are
\* taken here as they would be found, any sequence of at most MaxDocs
\* documents, the same _id allowed more than once, and gets are served from
\* them.
MaxDocs == 2

Docs == { bsonMarshal(Payment(i, a.Amount, a.SenderCharges)) :
             i \in Ids, a \in SampleAttrs }

Collections == UNION { [1..k -> Docs] : k \in 0..MaxDocs }

InitUnenforced ==
    /\ store \in Collections
    /\ pending = EmptyBag
    /\ resp = NoResponse
    /\ life = [i \in Ids |->
                  IF Len(Find(store, i)) > 0 THEN "live" ELSE "never"]

NextGet ==
    \/ \E id \in Ids, up \in BOOLEAN : getPaymentCount(id, up)
    \/ \E r \in InFlight, up \in BOOLEAN : getPaymentOne(r, up)

SpecUnenforced == InitUnenforced /\ [][NextGet]_vars

-----------------------------------------------------------------------------
(* Properties *)

\* Number of entries of a sequence of payments that carry identifier id.
Occurrences(payments, id) == Len(SelectSeq(payments, LAMBDA x : x.ID = id))

\* The payload of a 200 answer to GET /payments over collection s.
PaymentsBody(s) ==
    [data |-> [nil |-> FALSE,
               elems |-> [i \in 1..Len(s) |-> bsonUnmarshal(s[i])]],
     links |-> [self |-> "https://api.test.form3.tech/v1/payments"]]

\* C1: in every reachable state, under every interleaving of the requests,
\* the collection holds at most one document per identifier.
C1_AtMostOneRecordPerID ==
    \A i, j \in 1..Len(store) : store[i].id = store[j].id => i = j

\* C1 witness: two creates of one identifier both passed the count check; the
\* first insert stored the document, the second was rejected by the store.
C1_Witness ==
    /\ resp = respondWithError("create", "", StatusInternalServerError,
                               DuplicateKey)
    /\ \E id \in Ids : Len(Find(store, id)) = 1

\* C2 (as claimed): a create of a payment P whose non-empty identifier is not
\* in the store is answered 201 with P, and a get of P.ID that follows with
\* nothing in between is answered 200 with a payment equal to P in every
\* field.
C2_CreateThenGetReturnsP ==
    [][\A r \in InFlight :
          (Len(Find(store, r.p.ID)) = 0 /\ createPaymentInsert(r, TRUE))
          => /\ resp' = respondWithJSON("create", "", StatusCreated, r.p)
             /\ getPayment(store', r.p.ID) =
                    respondWithJSON("get", r.p.ID, StatusOK, r.p)]_vars

\* C3: in every reachable state, a create whose identifier already has a
\* document, the count query answered, is answered 400 "A payment with this
\* Payment ID already exists" whatever else the body holds; the handler ends
\* there (no insert is issued) and leaves the store as it was.
C3_DuplicateCreateRejected ==
    \A body \in Bodies :
        (body.ok /\ body.hasID /\ Len(Find(store, body.ID)) > 0)
        => createPaymentCheckResult(store, body, TRUE) =
              [resp |-> respondWithError("create", "", StatusBadRequest,
                           "A payment with this Payment ID already exists"),
               store |-> store,
               park |-> {}]

\* C3 witness: the rejection was written while a document is stored.
C3_Witness ==
    /\ resp = respondWithError("create", "", StatusBadRequest,
                               "A payment with this Payment ID already exists")
    /\ Len(store) > 0

\* C4 (as claimed): after a successful update with payment P' a get of that
\* identifier, nothing in between, returns a payment equal to P' in every
\* field.
C4_UpdateThenGetReturnsP ==
    [][\A r \in InFlight :
          (Len(Find(store, r.p.ID)) > 0 /\ updatePaymentUpdate(r, TRUE))
          => /\ resp' = respondWithJSON("update", r.id, StatusOK, r.p)
             /\ getPayment(store', r.p.ID) =
                    respondWithJSON("get", r.p.ID, StatusOK, r.p)]_vars

\* C5 (as claimed): a PUT whose path identifier has no document is answered
\* 404 "A payment with this Payment ID does not exist" for every decodable
\* body, the handler ending there with the store as it was.
C5_UpdateOfAbsentPathIDNotFound ==
    [][\A id \in Ids, body \in Bodies :
          ( /\ body.ok
            /\ Len(Find(store, id)) = 0
            /\ updatePaymentCheck(id, body, TRUE) )
          => /\ resp' = respondWithError("update", id, StatusNotFound,
                            "A payment with this Payment ID does not exist")
             /\ store' = store
             /\ pending' = pending]_vars

\* C6: while the last successful delete of id is not followed by a successful
\* create of id, every get of id that is requested (the store answering) is
\* answered 404 "Payment not found" at its count query.
C6_GetAfterDeleteNotFound ==
    \A id \in Ids :
        life[id] = "deleted"
        => getPaymentCountResult(store, id, TRUE) =
              [resp |-> respondWithError("get", id, StatusNotFound,
                                         "Payment not found"),
               store |-> store,
               park |-> {}]

\* C6 witness: a get answered 404 for an identifier whose delete succeeded.
C6_Witness ==
    \E id \in Ids :
        /\ life[id] = "deleted"
        /\ resp = respondWithError("get", id, StatusNotFound,
                                   "Payment not found")

\* C7: a delete of an identifier that has no document (never created, or
\* deleted), the count query answered, is answered 404 "A payment with this
\* Payment ID doesn't exists"; the handler ends there (no remove is issued)
\* and leaves the store as it was.
C7_DeleteOfAbsentNotFound ==
    \A id \in Ids :
        Len(Find(store, id)) = 0
        => deletePaymentCheckResult(store, id, TRUE) =
              [resp |-> respondWithError("delete", id, StatusNotFound,
                           "A payment with this Payment ID doesn't exists"),
               store |-> store,
               park |-> {}]

\* C7 witness: the second delete of an identifier was answered 404 while
\* another document is stored.
C7_Witness ==
    \E id \in Ids :
        /\ life[id] = "deleted"
        /\ Len(store) > 0
        /\ resp = respondWithError("delete", id, StatusNotFound,
                       "A payment with this Payment ID doesn't exists")

\* C8: a get of a non-empty identifier that has no document, the count query
\* answered, is answered 404 with the error message "Payment not found".
C8_GetOfAbsentNotFound ==
    \A id \in Ids :
        Len(Find(store, id)) = 0
        => (getPaymentCountResult(store, id, TRUE)).resp =
              [op |-> "get", id |-> id, status |-> 404,
               body |-> [error |-> "Payment not found"]]

\* C8 witness: a get of a never created identifier answered 404 while another
\* identifier is stored.
C8_Witness ==
    \E id \in Ids :
        /\ life[id] = "never"
        /\ Len(store) > 0
        /\ resp = respondWithError("get", id, StatusNotFound,
                                   "Payment not found")

\* C9: a list, the store answering, is answered 200 with exactly the stored
\* records: every identifier whose create succeeded and that was not deleted
\* since appears once, and no other identifier appears.
C9_ListReturnsLiveRecords ==
    LET o == getPaymentsResult(store, TRUE) IN
    /\ o = [resp |-> respondWithJSON("list", "", StatusOK, PaymentsBody(store)),
            store |-> store,
            park |-> {}]
    /\ \A id \in Ids :
          Occurrences(o.resp.body.data.elems, id) =
              IF life[id] = "live" THEN 1 ELSE 0
    /\ \A i \in 1..Len(o.resp.body.data.elems) :
          o.resp.body.data.elems[i].ID \in Ids

\* C9 witness: a list answered with one created identifier after the other
\* one was created and deleted.
C9_Witness ==
    /\ resp.op = "list" /\ resp.status = StatusOK
    /\ Len(resp.body.data.elems) = 1
    /\ \E id \in Ids :
          /\ life[id] = "deleted"
          /\ resp.body.data.elems[1].ID # id
          /\ life[resp.body.data.elems[1].ID] = "live"

\* C10: a list on an empty collection, the store answering, is answered 200
\* with data an empty array (not null) and the fixed self link.
C10_EmptyListIsEmptyArray ==
    store = <<>>
    => (getPaymentsResult(store, TRUE)).resp =
          [op |-> "list", id |-> "", status |-> 200,
           body |-> [data |-> [nil |-> FALSE, elems |-> <<>>],
                     links |-> [self |->
                        "https://api.test.form3.tech/v1/payments"]]]

\* C10 witness: the empty list was answered by a collection emptied by a
\* delete.
C10_Witness ==
    /\ store = <<>>
    /\ \E id \in Ids : life[id] = "deleted"
    /\ resp = respondWithJSON("list", "", StatusOK,
                  [data |-> MkSlice(<<>>), links |-> [self |-> SelfLink]])

\* C11: a create whose decodable body has an empty identifier ("id":"" or no
\* id key) is answered 400 "Cannot add a payment without a Payment ID
\* specified", whether or not the store answers; the handler ends there (no
\* insert is issued) and the store is as it was.
C11_CreateWithEmptyIDRejected ==
    \A body \in Bodies, up \in BOOLEAN :
        (body.ok /\ (jsonDecode(ZeroPayment, body)).ID = "")
        => createPaymentCheckResult(store, body, up) =
              [resp |-> [op |-> "create", id |-> "", status |-> 400,
                         body |-> [error |->
                  "Cannot add a payment without a Payment ID specified"]],
               store |-> store,
               park |-> {}]

\* C11 witness: the rejection was written while a document is stored.
C11_Witness ==
    /\ resp = respondWithError("create", "", StatusBadRequest,
                   "Cannot add a payment without a Payment ID specified")
    /\ Len(store) > 0

\* C12 (as claimed): a get with an empty identifier is answered 404 with the
\* validation error "No Payment ID specified", never with a 5xx.
C12_GetWithEmptyIDIsNotFound ==
    (resp.op = "get" /\ resp.id = "")
    => /\ resp.status = 404
       /\ resp.body = [error |-> "No Payment ID specified"]

\* C13 (as claimed): a create, update or delete during which a store call
\* fails, be it the count query or the insert, update or remove, is answered
\* 500 and never with a 4xx status.
C13_StoreFailureAnswered500 ==
    ( /\ resp.op \in {"create", "update", "delete"}
      /\ resp.body = [error |-> StoreDown] )
    => resp.status = 500

\* C14: of the creates of one identifier that run concurrently (all passed
\* the count check while the identifier was absent), with no delete of it in
\* between, at most one is answered 201: an insert is answered 201 only
\* while no earlier 201 for the identifier stands, it then echoes its payload
\* and leaves exactly one document for the identifier, the encoding of that
\* payload; every other insert is answered 500 and every create stopped at
\* its check is answered 400, both leaving the store as it was; and an
\* identifier whose create was answered 201 has exactly one document.
C14_ConcurrentCreatesOneWinner ==
    /\ \A r \in InFlight, up \in BOOLEAN, at \in NaturalPositions(store) :
          r.op = "create"
          => LET o == createPaymentInsertResult(store, r, up, at) IN
             /\ o.park = {}
             /\ o.resp.status \in {201, 500}
             /\ o.resp.status = 201
                => /\ life[r.p.ID] # "live"
                   /\ o.resp.body = r.p
                   /\ Find(o.store, r.p.ID) = <<bsonMarshal(r.p)>>
             /\ o.resp.status = 500 => o.store = store
    /\ \A body \in Bodies, up \in BOOLEAN :
          (body.ok /\ body.ID \in Ids)
          => LET o == createPaymentCheckResult(store, body, up) IN
             o.park = {} => (o.resp.status = 400 /\ o.store = store)
    /\ \A id \in Ids : life[id] = "live" => Len(Find(store, id)) = 1

\* C14 witness: two creates of one identifier with different payloads were
\* in flight together; one was answered 201 and the other has now been
\* answered 500 by the store, the collection holding the one document.
C14_Witness ==
    /\ resp = respondWithError("create", "", StatusInternalServerError,
                               DuplicateKey)
    /\ pending = EmptyBag
    /\ \E id \in Ids :
          /\ life = [i \in Ids |-> IF i = id THEN "live" ELSE "never"]
          /\ Len(store) = 1 /\ store[1].id = id

\* C15 (as claimed): whenever a get of id is answered 200, whatever deletes
\* and updates of id ran meanwhile, the record returned carries identifier
\* id (it is a record that was stored under id) and is never the zero-valued
\* record.
C15_GetOKReturnsStoredRecord ==
    (resp.op = "get" /\ resp.status = 200)
    => /\ resp.body.ID = resp.id
       /\ resp.body # ZeroPayment

\* C16: a create or an update whose body does not decode is answered 400
\* ("Invalid payload request", "Invalid request payload") by the handler
\* itself: the answer is the same whether or not the store would answer (no
\* store call is made), no second step follows and the store is as it was.
C16_UndecodableBodyRejected ==
    \A body \in Bodies, up \in BOOLEAN :
        ~body.ok
        => /\ createPaymentCheckResult(store, body, up) =
                 [resp |-> [op |-> "create", id |-> "", status |-> 400,
                            body |-> [error |-> "Invalid payload request"]],
                  store |-> store,
                  park |-> {}]
           /\ \A id \in Ids :
                 updatePaymentCheckResult(store, id, body, up) =
                    [resp |-> [op |-> "update", id |-> id, status |-> 400,
                               body |-> [error |-> "Invalid request payload"]],
                     store |-> store,
                     park |-> {}]

\* C16 witness: an update of a stored identifier with an undecodable body
\* was answered 400 and the document is still the one that was created.
C16_Witness ==
    \E id \in Ids :
        /\ resp = respondWithError("update", id, StatusBadRequest,
                                   "Invalid request payload")
        /\ life[id] = "live"
        /\ Len(Find(store, id)) = 1

\* C17: when the count query of a get, answered by the store, reports more
\* than one document for the identifier, the get is answered 500 "More than
\* one payment returned per ID" at that point: query.One is not issued and
\* none of the matching documents is returned.
C17_SeveralMatchesIsConflict ==
    \A id \in Ids :
        Len(Find(store, id)) > 1
        => getPaymentCountResult(store, id, TRUE) =
              [resp |-> [op |-> "get", id |-> id, status |-> 500,
                         body |-> [error |->
                            "More than one payment returned per ID"]],
               store |-> store,
               park |-> {}]

\* C17 witness: a get was answered with the conflict from a collection that
\* holds two different documents for its identifier.
C17_Witness ==
    \E id \in Ids :
        /\ resp = respondWithError("get", id, StatusInternalServerError,
                                   "More than one payment returned per ID")
        /\ Len(Find(store, id)) = 2
        /\ Find(store, id)[1] # Find(store, id)[2]

\* The identifiers of a collection, in its order.
IdsOf(s) == [i \in 1..Len(s) |-> s[i].id]

\* C18: documents enter the collection only at the insert of a create and
\* leave it only at the remove of a delete. The replace step of an update,
\* in every state it can run in, leaves the identifiers of the collection as
\* they are: when its identifier is absent at that moment (a delete
\* committed after the update's check) it inserts nothing and is answered
\* 500, and it is answered 200 only when the identifier is present. Of the
\* other steps that call the store a second time, the One of a get leaves
\* the collection as it is, the insert removes nothing and the remove adds
\* nothing.
C18_UpdateNeverInserts ==
    /\ \A r \in InFlight, up \in BOOLEAN :
          r.op = "update"
          => LET o == updatePaymentUpdateResult(store, r, up) IN
             /\ IdsOf(o.store) = IdsOf(store)
             /\ Len(Find(store, r.p.ID)) = 0
                => (o.store = store /\ o.resp.status = 500)
             /\ o.resp.status = 200 => Len(Find(store, r.p.ID)) = 1
    /\ \A r \in InFlight, up \in BOOLEAN :
          /\ r.op = "get" => (getPaymentOneResult(store, r, up)).store = store
          /\ r.op = "delete"
             => LET o == deletePaymentRemoveResult(store, r, up) IN
                \/ o.store = store
                \/ \E i \in 1..Len(store) : o.store = RemoveAt(store, i)
          /\ r.op = "create"
             => \A at \in NaturalPositions(store) :
                   LET o == createPaymentInsertResult(store, r, up, at) IN
                   \/ o.store = store
                   \/ o.store = InsertAt(store, at, bsonMarshal(r.p))

\* C18 witness: an update passed its check, a delete of the identifier
\* committed, and the update's replace step was then answered 500 with the
\* identifier still absent.
C18_Witness ==
    \E id \in Ids :
        /\ resp = respondWithError("update", id, StatusInternalServerError,
                                   ErrNotFound)
        /\ life[id] = "deleted"
        /\ Len(Find(store, id)) = 0

\* C19 (as claimed): a PUT /payment/{id} answered 200 leaves every document
\* whose identifier differs from {id} as it was, and the document it stores
\* and echoes carries {id}, whatever "id" the body holds.
C19_UpdateTouchesOnlyPathID ==
    [][\A r \in InFlight :
          ( /\ r.op = "update"
            /\ updatePaymentUpdate(r, TRUE)
            /\ resp'.status = 200 )
          => /\ resp'.body.ID = r.id
             /\ Find(store', r.id) = <<bsonMarshal(resp'.body)>>
             /\ \A i \in Ids \ {r.id} : Find(store', i) = Find(store, i)]_vars

\* The identifiers a list answers over collection s, in the order of its
\* entries.
ListedIds(s) ==
    LET l == (getPaymentsResult(s, TRUE)).resp.body.data.elems IN
    [k \in 1..Len(l) |-> l[k].ID]

C21_SuccessTouchesOneRecord ==
    \A r \in InFlight :
      \A at \in IF r.op = "create" THEN NaturalPositions(store) ELSE {1} :
        LET o == IF r.op = "create"
                 THEN createPaymentInsertResult(store, r, TRUE, at)
                 ELSE IF r.op = "update"
                 THEN updatePaymentUpdateResult(store, r, TRUE)
                 ELSE IF r.op = "delete"
                 THEN deletePaymentRemoveResult(store, r, TRUE)
                 ELSE Answered(store, NoResponse)
        IN  o.resp.status \in {200, 201}
            => /\ \A i \in Ids \ {r.p.ID} : Find(o.store, i) = Find(store, i)
               /\ Len(o.store) = Len(store) + (IF r.op = "create" THEN 1
                                               ELSE IF r.op = "delete" THEN -1
                                               ELSE 0)
               /\ r.op = "create"
                  => /\ Find(store, r.p.ID) = <<>>
                     /\ Find(o.store, r.p.ID) = <<bsonMarshal(r.p)>>
               /\ r.op = "update"
                  => /\ Len(Find(store, r.p.ID)) = 1
                     /\ Find(o.store, r.p.ID) = <<bsonMarshal(r.p)>>
               /\ r.op = "delete"
                  => /\ Len(Find(store, r.p.ID)) = 1
                     /\ Find(o.store, r.p.ID) = <<>>

\* C21 witness: a delete was answered 200 and the document of the other
\* identifier, created before, is the one document left.
C21_Witness ==
    \E id \in Ids :
        /\ resp = respondWithJSON("delete", id, StatusOK,
                                  [result |-> "success"])
        /\ life[id] = "deleted"
        /\ Len(store) = 1 /\ store[1].id # id
        /\ life[store[1].id] = "live"

\* C22: a get and a list leave the collection as it is, whatever they
\* answer and whether or not the store answers: the list, the count step of
\* a get of any identifier, and the One step of every get in flight.
C22_ReadsLeaveStoreUnchanged ==
    \A up \in BOOLEAN :
        /\ (getPaymentsResult(store, up)).store = store
        /\ \A id \in Ids : (getPaymentCountResult(store, id, up)).store = store
        /\ \A r \in InFlight :
              r.op = "get" => (getPaymentOneResult(store, r, up)).store = store

\* C22 witness: a get was answered 200 with the document of its identifier
\* and that document is still stored.
C22_Witness ==
    /\ resp.op = "get" /\ resp.status = 200
    /\ Len(Find(store, resp.id)) = 1
    /\ resp.body = bsonUnmarshal(Find(store, resp.id)[1])

\* C23: a get, create, update or delete whose payment identifier is empty
\* ends with the validation error of its operation before any store call:
\* the answer is the same with the store answering and not answering, no
\* second step follows and the store is as it was. The create is answered
\* 400, the update and the delete 404.
C23_EmptyIDCheckedBeforeStore ==
    \A up \in BOOLEAN :
        /\ LET o == getPaymentCountResult(store, "", up) IN
           /\ o.resp.body = [error |-> "No Payment ID specified"]
           /\ o.store = store /\ o.park = {}
           /\ o = getPaymentCountResult(store, "", ~up)
        /\ \A body \in Bodies :
              (body.ok /\ (jsonDecode(ZeroPayment, body)).ID = "")
              => createPaymentCheckResult(store, body, up) =
                    Answered(store, respondWithError("create", "", 400,
                       "Cannot add a payment without a Payment ID specified"))
        /\ \A id \in HandlerIds, body \in Bodies :
              (body.ok /\ (jsonDecode(Payment(id, "", NilSlice), body)).ID = "")
              => updatePaymentCheckResult(store, id, body, up) =
                    Answered(store, respondWithError("update", id, 404,
                       "Cannot update a payment without a Payment ID specified"))
        /\ deletePaymentCheckResult(store, "", up) =
              Answered(store, respondWithError("delete", "", 404,
                 "Cannot delete a payment without a Payment ID specified"))

\* C23 witness: a delete with the empty identifier was answered 404 with
\* the validation error while a document is stored.
C23_Witness ==
    /\ resp = respondWithError("delete", "", StatusNotFound,
                   "Cannot delete a payment without a Payment ID specified")
    /\ Len(store) > 0

\* The statuses the handler of a route may answer with.
StatusesOf(op) ==
    IF op = "list" THEN {200, 500}
    ELSE IF op = "create" THEN {201, 400, 500}
    ELSE IF op = "get" THEN {200, 404, 500}
    ELSE IF op = "update" THEN {200, 400, 404, 500}
    ELSE IF op = "delete" THEN {200, 404, 500}
    ELSE {0}

\* C24 (as claimed): every response has a status of the set of its route,
\* and a request is not answered 2xx by a step whose store call failed: a
\* list or a second step (insert, One, update, remove) that the store does
\* not answer writes a response that is not 200 or 201.
C24_StatusSetsAndNo2xxAfterFailure ==
    [][/\ resp'.status \in StatusesOf(resp'.op)
       /\ getPayments(FALSE) => resp'.status \notin {200, 201}
       /\ \A r \in InFlight :
             ( \/ createPaymentInsert(r, FALSE)
               \/ getPaymentOne(r, FALSE)
               \/ updatePaymentUpdate(r, FALSE)
               \/ deletePaymentRemove(r, FALSE) )
             => resp'.status \notin {200, 201}]_vars

\* C25: the remove of a delete is answered 200 only when it removes the
\* document itself: the identifier is stored at that moment under a create
\* answered 201 and not deleted since, and is gone afterwards; a remove that
\* finds no document (another delete removed it first) is answered 500 and
\* leaves the store as it was. Each delete answered 200 thus uses up one
\* create answered 201, and for no identifier do the deletes answered 200
\* outnumber the creates answered 201.
C25_DeleteOKOnlyIfItRemoved ==
    \A r \in InFlight, up \in BOOLEAN :
        r.op = "delete"
        => LET o == deletePaymentRemoveResult(store, r, up) IN
           /\ o.park = {}
           /\ o.resp.status = 200
              => /\ life[r.p.ID] = "live"
                 /\ Len(Find(store, r.p.ID)) = 1
                 /\ Len(Find(o.store, r.p.ID)) = 0
           /\ Len(Find(store, r.p.ID)) = 0
              => /\ o.resp.status = 500
                 /\ o.store = store

\* C25 witness: two deletes of one stored identifier were in flight
\* together; one was answered 200 and the other has now been answered 500.
C25_Witness ==
    \E id \in Ids :
        /\ resp = respondWithError("delete", id, StatusInternalServerError,
                                   ErrNotFound)
        /\ life[id] = "deleted"
        /\ Len(Find(store, id)) = 0
        /\ pending = EmptyBag

\* C26: in every reachable state the count query of a get reports 0 or 1
\* for every identifier, the get going on to query.One exactly when it is 1
\* (never into the branch count > 1), and no response written carries "More
\* than one payment returned per ID".
C26_ConflictBranchNeverTaken ==
    /\ \A id \in Ids :
          LET c == (returnPaymentCountAndQuery(store, Payment(id, "", NilSlice),
                                              TRUE)).count
          IN  /\ c \in {0, 1}
              /\ (c = 1) = (modelGetPaymentCount(store,
                                Payment(id, "", NilSlice), TRUE)).one
    /\ resp.body # [error |-> "More than one payment returned per ID"]

\* C26 witness: a get was answered 200 for an identifier that is stored
\* while a second create of it, past its count check, is still in flight.
C26_Witness ==
    \E r \in InFlight :
        /\ r.op = "create"
        /\ Len(Find(store, r.p.ID)) = 1
        /\ resp.op = "get" /\ resp.id = r.p.ID /\ resp.status = 200
        /\ resp.body.ID = r.p.ID

====
